---- MODULE Spec2Model ----
(***************************************************************************)
(* A model of the fixed-bin histogram generated by define_histogram!       *)
(* (src/src/histogram.rs) and of the Min merge test (src/tests/min.rs).    *)
(*                                                                         *)
(* f64 values are modelled by integers: the finite values are              *)
(* -MaxF .. MaxF (MaxF stands for f64::MAX, arithmetic beyond it rounds to *)
(* an infinity), PosInf and NegInf are the infinities and NaN is a value   *)
(* that is unordered with everything, itself included.  u64 counters are   *)
(* modelled with WordBits bits.  Arrays keep the source's 0-based indices. *)
(***************************************************************************)
EXTENDS Integers, Sequences, FiniteSets, TLC

\* The number of bins ($LEN of the macro).
LEN == 2
\* The widest constant bin width used when constructing with_const_width.
MaxWidth == 3
\* Width of the modelled u64.
WordBits == 2
\* Number of values an input iterator may yield beyond the LEN + 1 it needs.
MaxExtra == 1

MaxF == LEN * MaxWidth
PosInf == MaxF + 1
NegInf == 0 - PosInf
NaN == MaxF + 2
Finite == (0 - MaxF) .. MaxF
F64 == Finite \cup {NegInf, PosInf, NaN}

U64Modulus == 2 ^ WordBits
U64Max == U64Modulus - 1

VARIABLES
    h,                \* the histogram (self): [range, bin]
    ctor,             \* "none", "from_ranges", "with_const_width" or "failed"
    input,            \* the constructor call: pending, or (uniform fill) made
    other,            \* the histogram passed to += (the right operand)
    total,            \* a histogram that receives every sample of h and other
    added,            \* the integers added so far in the uniform fill
    op,               \* the last call: [name, arg, ret, i]
    status,           \* "running" or "panicked"
    overflow_checks,  \* the build profile: are integer overflow checks on?
    sequence,         \* the Min merge test: the values
    mid,              \* the Min merge test: where the sequence is split
    min_total,        \* Min collected from the whole sequence
    min_left,         \* Min collected from the left part, then merged
    min_right,        \* Min collected from the right part
    pc                \* the Min merge test's position

histvars == <<h, ctor, input, other, total, added, op, status, overflow_checks>>
minvars == <<sequence, mid, min_total, min_left, min_right, pc>>
vars == <<histvars, minvars>>

----------------------------------------------------------------------------
(* f64 *)

is_nan(x) == x = NaN

\* Round a real result to f64: beyond f64::MAX it becomes an infinity.
Round(r) == IF r > MaxF THEN PosInf ELSE IF r < 0 - MaxF THEN NegInf ELSE r

\* a - b
FSub(a, b) ==
    IF is_nan(a) \/ is_nan(b) THEN NaN
    ELSE IF a \in {PosInf, NegInf}
         THEN (IF a = b THEN NaN ELSE a)
    ELSE IF b = PosInf THEN NegInf
    ELSE IF b = NegInf THEN PosInf
    ELSE Round(a - b)

\* a / n for n a positive finite number (LEN as f64).  The finite quotients
\* the model takes are exact (a is a multiple of n).
FDiv(a, n) ==
    IF is_nan(a) THEN NaN
    ELSE IF a \in {PosInf, NegInf} THEN a
    ELSE IF a >= 0 THEN a \div n ELSE 0 - ((0 - a) \div n)

\* a * i for i a finite number >= 0 (an index as f64).
FMul(a, i) ==
    IF is_nan(a) THEN NaN
    ELSE IF a \in {PosInf, NegInf} THEN (IF i = 0 THEN NaN ELSE a)
    ELSE Round(a * i)

\* a > b: false when either is NaN.
FGt(a, b) == ~is_nan(a) /\ ~is_nan(b) /\ a > b
\* a == b: false when either is NaN.
FEq(a, b) == ~is_nan(a) /\ ~is_nan(b) /\ a = b

\* f64::partial_cmp
partial_cmp(a, b) ==
    IF is_nan(a) \/ is_nan(b) THEN "None"
    ELSE IF a < b THEN "Less"
    ELSE IF a = b THEN "Equal"
    ELSE "Greater"

----------------------------------------------------------------------------
(* Results *)

NoIndex == 0 - 1
Ok(i) == [tag |-> "Ok", i |-> i]
Err(i) == [tag |-> "Err", i |-> i]
Panic == [tag |-> "panic", i |-> NoIndex]

\* The state before a constructor has run.
NoHist == [range |-> [i \in {} |-> 0], bin |-> [i \in {} |-> 0]]
ZeroBins == [i \in 0 .. LEN - 1 |-> 0]

----------------------------------------------------------------------------
(* Construction *)

\* with_const_width(start, end)
with_const_width(start, end) ==
    LET step == FDiv(FSub(end, start), LEN)
    IN  [range |-> [i \in 0 .. LEN |-> FMul(step, i)], bin |-> ZeroBins]

\* A variant that also rejects equal neighbours.
out_of_order_strict(i, range, r) == i > 0 /\ ~is_nan(range[i - 1]) /\ range[i - 1] >= r

\* The test `i > 0 && range[i - 1] > r` of from_ranges.
out_of_order(i, range, r) == i > 0 /\ FGt(range[i - 1], r)

\* The for loop of from_ranges from the i-th value (0-based) of the iterator
\* on: [failed |-> a return Err(()) was taken, range, last_i].
RECURSIVE from_ranges_loop(_, _, _, _)
from_ranges_loop(ranges, i, range, last_i) ==
    IF i >= Len(ranges) \/ i > LEN
    THEN [failed |-> FALSE, range |-> range, last_i |-> last_i]
    ELSE LET r == ranges[i + 1]
         IN  IF is_nan(r) \/ out_of_order(i, range, r)
             THEN [failed |-> TRUE, range |-> range, last_i |-> last_i]
             ELSE from_ranges_loop(ranges, i + 1, [range EXCEPT ![i] = r], i)

\* from_ranges(ranges): [res |-> Ok or Err, hist |-> the histogram when Ok]
from_ranges(ranges) ==
    LET l == from_ranges_loop(ranges, 0, [i \in 0 .. LEN |-> 0], 0)
    IN  IF l.failed \/ l.last_i # LEN
        THEN [res |-> Err(NoIndex), hist |-> NoHist]
        ELSE [res |-> Ok(NoIndex), hist |-> [range |-> l.range, bin |-> ZeroBins]]

----------------------------------------------------------------------------
(* Classification *)

\* slice::binary_search_by over range[lo .. hi - 1] with the comparator
\* |p| p.partial_cmp(&x).unwrap().  The set of outcomes over every choice of
\* the probed index: on a sorted slice it is, as the standard library
\* documents, any one of the matching indices, or the insertion point when
\* nothing matches; unwrap panics when a probed comparison is None.
RECURSIVE binary_search_from(_, _, _, _)
binary_search_from(range, x, lo, hi) ==
    IF lo >= hi THEN {Err(lo)}
    ELSE UNION { LET c == partial_cmp(range[m], x)
                 IN  IF c = "None" THEN {Panic}
                     ELSE IF c = "Less"
                          THEN binary_search_from(range, x, m + 1, hi)
                     ELSE IF c = "Greater"
                          THEN binary_search_from(range, x, lo, m)
                     ELSE {Ok(m)}
                 : m \in lo .. hi - 1 }

binary_search_by(range, x) == binary_search_from(range, x, 0, LEN + 1)

\* A variant that puts a sample equal to a boundary into the bin below it.
find_match_closed_above(r) ==
    IF r.tag = "panic" THEN Panic
    ELSE IF r.tag = "Ok" /\ r.i > 0 /\ r.i < LEN + 1 THEN Ok(r.i - 1)
    ELSE IF r.tag = "Err" /\ r.i > 0 /\ r.i < LEN + 1 THEN Ok(r.i - 1)
    ELSE Err(NoIndex)

\* The match of find on the search's result.
find_match(r) ==
    IF r.tag = "panic" THEN Panic
    ELSE IF r.tag = "Ok" /\ r.i < LEN THEN Ok(r.i)
    ELSE IF r.tag = "Err" /\ r.i > 0 /\ r.i < LEN + 1 THEN Ok(r.i - 1)
    ELSE Err(NoIndex)

\* find(&self, x): the results the build may give.
find(self, x) == { find_match(r) : r \in binary_search_by(self.range, x) }

----------------------------------------------------------------------------
(* Accumulation, reset, merge, scale *)

\* u64 arithmetic: v is the exact result, which overflows beyond u64::MAX and
\* is then, without overflow checks, kept modulo 2^64.
overflows(v) == v > U64Max
\* A variant that saturates.
wrap_saturating(v) == IF v > U64Max THEN U64Max ELSE v
wrap(v) == v % U64Modulus

\* self.bin[i] += 1
incr(v) == v + 1

\* A variant that counts an out-of-range sample in the first bin.
add_found_counting_err(self, r) ==
    IF r.tag = "Ok"
    THEN LET v == self.bin[r.i] + 1
         IN  IF v > U64Max /\ overflow_checks
             THEN [hist |-> self, res |-> Panic]
             ELSE [hist |-> [self EXCEPT !.bin[r.i] = v % U64Modulus], res |-> Ok(r.i)]
    ELSE IF r.tag = "Err"
         THEN [hist |-> [self EXCEPT !.bin[0] = (self.bin[0] + 1) % U64Modulus],
               res |-> Err(NoIndex)]
    ELSE [hist |-> self, res |-> Panic]

\* add(&mut self, x) when its find returned r: [hist, res]
add_found(self, r) ==
    IF r.tag = "Ok"
    THEN LET v == incr(self.bin[r.i])
         IN  IF overflows(v) /\ overflow_checks
             THEN [hist |-> self, res |-> Panic]
             ELSE [hist |-> [self EXCEPT !.bin[r.i] = wrap(v)], res |-> Ok(r.i)]
    ELSE IF r.tag = "Err" THEN [hist |-> self, res |-> Err(NoIndex)]
    ELSE [hist |-> self, res |-> Panic]

\* add(&mut self, x): the outcomes the build may give.
add(self, x) == { add_found(self, r) : r \in find(self, x) }

\* reset(&mut self)
reset(self) == [self EXCEPT !.bin = ZeroBins]

\* self.range == other.range, as assert_eq! compares the arrays.
range_eq(a, b) ==
    /\ DOMAIN a = DOMAIN b
    /\ \A i \in DOMAIN a : FEq(a[i], b[i])

\* Variants that assign instead of accumulating.
plus_overwrite(x, y) == y
times_overwrite(x, factor) == factor
\* *x += y
plus(x, y) == x + y
\* *x *= other
times(x, factor) == x * factor

\* The loop of add_assign from index i on: [bin, res]
RECURSIVE add_assign_loop(_, _, _)
add_assign_loop(bin, obin, i) ==
    IF i >= LEN THEN [bin |-> bin, res |-> Ok(NoIndex)]
    ELSE LET v == plus(bin[i], obin[i])
         IN  IF overflows(v) /\ overflow_checks
             THEN [bin |-> bin, res |-> Panic]
             ELSE add_assign_loop([bin EXCEPT ![i] = wrap(v)], obin, i + 1)

\* add_assign(&mut self, other: &Self): [hist, res]
add_assign(self, o) ==
    IF ~range_eq(self.range, o.range)
    THEN [hist |-> self, res |-> Panic]
    ELSE LET l == add_assign_loop(self.bin, o.bin, 0)
         IN  [hist |-> [self EXCEPT !.bin = l.bin], res |-> l.res]

\* The loop of mul_assign from index i on: [bin, res]
RECURSIVE mul_assign_loop(_, _, _)
mul_assign_loop(bin, factor, i) ==
    IF i >= LEN THEN [bin |-> bin, res |-> Ok(NoIndex)]
    ELSE LET v == times(bin[i], factor)
         IN  IF overflows(v) /\ overflow_checks
             THEN [bin |-> bin, res |-> Panic]
             ELSE mul_assign_loop([bin EXCEPT ![i] = wrap(v)], factor, i + 1)

\* mul_assign(&mut self, other: u64): [hist, res]
mul_assign(self, factor) ==
    LET l == mul_assign_loop(self.bin, factor, 0)
    IN  [hist |-> [self EXCEPT !.bin = l.bin], res |-> l.res]

----------------------------------------------------------------------------
(* Inputs *)

NoInput == [ctor |-> "none", args |-> <<>>]
NoOp == [name |-> "none", arg |-> <<>>, ret |-> "none", i |-> NoIndex]
Call(name, arg, res) == [name |-> name, arg |-> arg, ret |-> res.tag, i |-> res.i]
StatusAfter(res) == IF res.tag = "panic" THEN "panicked" ELSE "running"

SeqsUpTo(S, n) == UNION { [1 .. k -> S] : k \in 0 .. n }

\* with_const_width is called with small integers whose difference is a
\* multiple of LEN, so that the f64 division is exact.
WidthArgs == { k * LEN : k \in (0 - MaxWidth) .. MaxWidth }
ConstWidthInputs ==
    { [ctor |-> "with_const_width", args |-> <<s, e>>] : s, e \in WidthArgs }

\* Iterators for from_ranges: every sequence of boundary values of up to
\* LEN + 1 + MaxExtra items.
RangeVals == (0 .. LEN) \cup {NegInf, PosInf, NaN}
FromRangesInputs ==
    { [ctor |-> "from_ranges", args |-> s] : s \in SeqsUpTo(RangeVals, LEN + 1 + MaxExtra) }

\* The samples classified and added.
Samples == ((0 - 1) .. LEN) \cup {NegInf, PosInf, NaN}

----------------------------------------------------------------------------
(* Calls *)

CallWithConstWidth ==
    /\ status = "running" /\ ctor = "none"
    /\ input.ctor = "with_const_width"
    /\ h' = with_const_width(input.args[1], input.args[2])
    /\ ctor' = "with_const_width"
    /\ op' = Call("with_const_width", input.args, Ok(NoIndex))
    /\ input' = NoInput
    /\ UNCHANGED <<other, total, added, status, overflow_checks>>
    /\ UNCHANGED minvars

CallFromRanges ==
    /\ status = "running" /\ ctor = "none"
    /\ input.ctor = "from_ranges"
    /\ LET r == from_ranges(input.args)
       IN  /\ h' = r.hist
           /\ ctor' = IF r.res.tag = "Ok" THEN "from_ranges" ELSE "failed"
           /\ op' = Call("from_ranges", input.args, r.res)
    /\ input' = NoInput
    /\ UNCHANGED <<other, total, added, status, overflow_checks>>
    /\ UNCHANGED minvars

Built == status = "running" /\ ctor \in {"from_ranges", "with_const_width"}

CallFind(x) ==
    /\ Built
    /\ \E r \in find(h, x) :
        /\ op' = Call("find", <<x>>, r)
        /\ status' = StatusAfter(r)
    /\ UNCHANGED <<h, ctor, input, other, total, added, overflow_checks>>
    /\ UNCHANGED minvars

\* The Min test at rest.
MinIdle ==
    /\ sequence = <<>> /\ mid = 0 /\ pc = "idle"
    /\ min_total = [x |-> PosInf] /\ min_left = [x |-> PosInf]
    /\ min_right = [x |-> PosInf]

Init0 ==
    /\ MinIdle
    /\ h = NoHist /\ ctor = "none" /\ other = NoHist /\ total = NoHist
    /\ added = {} /\ op = NoOp /\ status = "running"
    /\ overflow_checks \in BOOLEAN

\* Construction and classification.
InitQuery == Init0 /\ input \in ConstWidthInputs \cup FromRangesInputs
NextQuery ==
    \/ CallWithConstWidth
    \/ CallFromRanges
    \/ \E x \in Samples : CallFind(x)
SpecQuery == InitQuery /\ [][NextQuery]_vars

----------------------------------------------------------------------------
(* The histogram's life: construction, then add, reset, += and *= *)

CallAdd(x) ==
    /\ Built
    /\ \E r \in add(h, x) :
        /\ h' = r.hist
        /\ op' = Call("add", <<x>>, r.res)
        /\ status' = StatusAfter(r.res)
    /\ UNCHANGED <<ctor, input, other, total, added, overflow_checks>>
    /\ UNCHANGED minvars

CallReset ==
    /\ Built
    /\ h' = reset(h)
    /\ op' = Call("reset", <<>>, Ok(NoIndex))
    /\ UNCHANGED <<ctor, input, other, total, added, status, overflow_checks>>
    /\ UNCHANGED minvars

\* The bins of a histogram as a sequence, for the record of a call.
BinSeq(o) == [k \in 1 .. LEN |-> o.bin[k - 1]]

CallAddAssign(o) ==
    /\ Built
    /\ LET r == add_assign(h, o)
       IN  /\ h' = r.hist
           /\ op' = Call("add_assign", BinSeq(o), r.res)
           /\ status' = StatusAfter(r.res)
    /\ UNCHANGED <<ctor, input, other, total, added, overflow_checks>>
    /\ UNCHANGED minvars

CallMulAssign(factor) ==
    /\ Built
    /\ LET r == mul_assign(h, factor)
       IN  /\ h' = r.hist
           /\ op' = Call("mul_assign", <<factor>>, r.res)
           /\ status' = StatusAfter(r.res)
    /\ UNCHANGED <<ctor, input, other, total, added, overflow_checks>>
    /\ UNCHANGED minvars

\* Iterators for from_ranges in the life of a histogram: LEN + 1 boundaries.
LifeVals == {0, 1}
LifeRangesInputs ==
    { [ctor |-> "from_ranges", args |-> s] : s \in [1 .. LEN + 1 -> LifeVals] }

\* Right operands of +=: a histogram over the same ranges holding one sample,
\* and a histogram built by with_const_width(0, LEN).
MergeArgs(self) ==
    {with_const_width(0, LEN)}
    \cup { [range |-> self.range, bin |-> [ZeroBins EXCEPT ![i] = 1]] : i \in 0 .. LEN - 1 }

\* Factors of *=.
Factors == {0, 1, 2, U64Max}

\* Samples added in the life of a histogram.
LifeSamples == ((0 - 1) .. LEN) \cup {NaN}

Init == Init0 /\ input \in ConstWidthInputs \cup LifeRangesInputs
Next ==
    \/ CallWithConstWidth
    \/ CallFromRanges
    \/ \E x \in LifeSamples : CallAdd(x)
    \/ CallReset
    \/ \E o \in MergeArgs(h) : CallAddAssign(o)
    \/ \E factor \in Factors : CallMulAssign(factor)
Spec == Init /\ [][Next]_vars

----------------------------------------------------------------------------
(* Two histograms over the same ranges, filled separately and merged *)

\* The samples a histogram may receive before the merge.
MaxSamples == 2

RECURSIVE SumBins(_, _)
SumBins(bin, i) == IF i >= LEN THEN 0 ELSE bin[i] + SumBins(bin, i + 1)

Construct(inp) ==
    IF inp.ctor = "with_const_width"
    THEN with_const_width(inp.args[1], inp.args[2])
    ELSE from_ranges(inp.args).hist

Merged == op.name = "add_assign"

\* h.add(x), and the same sample into total.
AddLeft(x) ==
    /\ Built /\ ~Merged
    /\ SumBins(h.bin, 0) < MaxSamples
    /\ \E r \in find(h, x) :
        LET a == add_found(h, r)
            t == add_found(total, r)
        IN  /\ h' = a.hist
            /\ total' = t.hist
            /\ op' = Call("add", <<x>>, a.res)
            /\ status' = IF "panic" \in {a.res.tag, t.res.tag}
                         THEN "panicked" ELSE "running"
    /\ UNCHANGED <<ctor, input, other, added, overflow_checks>>
    /\ UNCHANGED minvars

\* other.add(x), and the same sample into total.
AddRight(x) ==
    /\ Built /\ ~Merged
    /\ SumBins(other.bin, 0) < MaxSamples
    /\ \E r \in find(other, x) :
        LET a == add_found(other, r)
            t == add_found(total, r)
        IN  /\ other' = a.hist
            /\ total' = t.hist
            /\ op' = Call("add", <<x>>, a.res)
            /\ status' = IF "panic" \in {a.res.tag, t.res.tag}
                         THEN "panicked" ELSE "running"
    /\ UNCHANGED <<h, ctor, input, added, overflow_checks>>
    /\ UNCHANGED minvars

\* h += &other
MergeOther == ~Merged /\ CallAddAssign(other)

InitMerge ==
    /\ MinIdle
    /\ \E inp \in ConstWidthInputs \cup LifeRangesInputs :
        /\ inp.ctor = "from_ranges" => from_ranges(inp.args).res.tag = "Ok"
        /\ h = Construct(inp)
        /\ ctor = inp.ctor
    /\ other = h /\ total = h
    /\ input = NoInput /\ added = {} /\ op = NoOp /\ status = "running"
    /\ overflow_checks \in BOOLEAN
NextMerge ==
    \/ \E x \in LifeSamples : AddLeft(x)
    \/ \E x \in LifeSamples : AddRight(x)
    \/ MergeOther
SpecMerge == InitMerge /\ [][NextMerge]_vars

----------------------------------------------------------------------------
(* The uniform fill of the documentation: with_const_width(0, LEN * w), then
   every integer below LEN * w added once *)

FillInputs ==
    { [ctor |-> "with_const_width", args |-> <<0, LEN * w>>] : w \in 1 .. MaxWidth }

FillAdd(j) ==
    /\ Built
    /\ j \notin added
    /\ \E r \in add(h, j) :
        /\ h' = r.hist
        /\ op' = Call("add", <<j>>, r.res)
        /\ status' = StatusAfter(r.res)
    /\ added' = added \cup {j}
    /\ UNCHANGED <<ctor, input, other, total, overflow_checks>>
    /\ UNCHANGED minvars

InitFill ==
    /\ MinIdle
    /\ input \in FillInputs
    /\ h = Construct(input) /\ ctor = input.ctor
    /\ other = NoHist /\ total = NoHist
    /\ added = {} /\ op = NoOp /\ status = "running"
    /\ overflow_checks \in BOOLEAN
NextFill == \E j \in 0 .. input.args[2] - 1 : FillAdd(j)
SpecFill == InitFill /\ [][NextFill]_vars

----------------------------------------------------------------------------
(* Min, and the merge test of tests/min.rs *)

\* Min::new()
MinNew == [x |-> PosInf]
\* Min::add(value): compare and replace
MinAdd(m, v) == IF ~is_nan(v) /\ v < m.x THEN [x |-> v] ELSE m
\* Min::min()
MinValue(m) == m.x
\* Min::merge(&other)
MinMerge(m, o) == MinAdd(m, o.x)
\* A Min collected from a sequence: add folded over it.
RECURSIVE MinCollect(_)
MinCollect(s) ==
    IF s = <<>> THEN MinNew
    ELSE MinAdd(MinCollect(SubSeq(s, 1, Len(s) - 1)), s[Len(s)])

\* A variant of the right part that starts one value late.
RightPart_late(s, k) == SubSeq(s, k + 2, Len(s))
\* sequence.split_at(mid)
LeftPart(s, k) == SubSeq(s, 1, k)
RightPart(s, k) == SubSeq(s, k + 1, Len(s))

\* The longest sequence of the test.
MaxSeq == 3
MinVals == ((0 - 1) .. 1) \cup {NegInf, PosInf}

CollectTotal ==
    /\ pc = "total"
    /\ min_total' = MinCollect(sequence)
    /\ pc' = "left"
    /\ UNCHANGED <<sequence, mid, min_left, min_right>>
    /\ UNCHANGED histvars

CollectLeft ==
    /\ pc = "left"
    /\ min_left' = MinCollect(LeftPart(sequence, mid))
    /\ pc' = "right"
    /\ UNCHANGED <<sequence, mid, min_total, min_right>>
    /\ UNCHANGED histvars

CollectRight ==
    /\ pc = "right"
    /\ min_right' = MinCollect(RightPart(sequence, mid))
    /\ pc' = "merge"
    /\ UNCHANGED <<sequence, mid, min_total, min_left>>
    /\ UNCHANGED histvars

MergeMins ==
    /\ pc = "merge"
    /\ min_left' = MinMerge(min_left, min_right)
    /\ pc' = "done"
    /\ UNCHANGED <<sequence, mid, min_total, min_right>>
    /\ UNCHANGED histvars

InitMin ==
    /\ h = NoHist /\ ctor = "none" /\ other = NoHist /\ total = NoHist
    /\ input = NoInput /\ added = {} /\ op = NoOp /\ status = "running"
    /\ overflow_checks = FALSE
    /\ sequence \in UNION { [1 .. n -> MinVals] : n \in 2 .. MaxSeq }
    /\ mid \in 1 .. Len(sequence) - 1
    /\ min_total = MinNew /\ min_left = MinNew /\ min_right = MinNew
    /\ pc = "total"
NextMin == CollectTotal \/ CollectLeft \/ CollectRight \/ MergeMins
SpecMin == InitMin /\ [][NextMin]_vars

----------------------------------------------------------------------------
(* Life claims *)

Constructed == ctor \in {"from_ranges", "with_const_width"}
\* A step between two states of a constructed histogram.
LifeStep == Constructed /\ DOMAIN h.bin = 0 .. LEN - 1
FindOk(x) == { r.i : r \in { q \in find(h, x) : q.tag = "Ok" } }

\* C3 as claimed: when find(x) returns Ok(i), add(x) returns Ok and increments
\* bin[i] by exactly one, everything else unchanged; when find(x) returns
\* Err, add(x) returns Err and nothing changes.
C3_AddAsClaimed ==
    [][(LifeStep /\ op'.name = "add") =>
        LET x == op'.arg[1]
        IN  /\ op'.ret = "Ok" =>
                  /\ op'.i \in FindOk(x)
                  /\ h' = [h EXCEPT !.bin[op'.i] = h.bin[op'.i] + 1]
            /\ op'.ret = "Err" => Err(NoIndex) \in find(h, x) /\ h' = h
            /\ op'.ret = "panic" => Panic \in find(h, x)
    ]_vars

\* C3, amended: add has no partial effect.  When find(x) returns Ok(i) and
\* bin[i] is below u64::MAX, add returns Ok and increments bin[i] by exactly
\* one, everything else unchanged; when find(x) returns Err, add returns Err
\* and nothing changes; when bin[i] is u64::MAX the increment overflows: a
\* build with overflow checks panics with nothing changed, a build without
\* them wraps bin[i] to zero and returns Ok.
C3_AddNoPartialEffect ==
    [][(LifeStep /\ op'.name = "add") =>
        LET x == op'.arg[1]
        IN  /\ op'.ret = "Ok" =>
                  /\ op'.i \in FindOk(x)
                  /\ h.bin[op'.i] < U64Max =>
                        h' = [h EXCEPT !.bin[op'.i] = h.bin[op'.i] + 1]
                  /\ h.bin[op'.i] = U64Max =>
                        ~overflow_checks /\ h' = [h EXCEPT !.bin[op'.i] = 0]
            /\ op'.ret = "Err" => Err(NoIndex) \in find(h, x) /\ h' = h
            /\ op'.ret = "panic" =>
                  /\ h' = h
                  /\ \/ Panic \in find(h, x)
                     \/ overflow_checks /\ \E i \in FindOk(x) : h.bin[i] = U64Max
    ]_vars

\* add has returned Ok for the second sample of a bin.
C3_Witness ==
    /\ op.name = "add" /\ op.ret = "Ok"
    /\ h.bin[op.i] = 2

\* C6: the ranges of a constructed histogram hold no NaN and are
\* non-decreasing, in every reachable state.
C6_RangeInvariant ==
    Constructed =>
        /\ \A i \in 0 .. LEN : h.range[i] # NaN
        /\ \A i \in 0 .. LEN - 1 : h.range[i] <= h.range[i + 1]

\* The exact u64 result for bin i of the step's operation.
Exact(i) ==
    IF op'.name = "add" THEN h.bin[i] + (IF op'.i = i THEN 1 ELSE 0)
    ELSE IF op'.name = "add_assign" THEN h.bin[i] + op'.arg[i + 1]
    ELSE IF op'.name = "mul_assign" THEN h.bin[i] * op'.arg[1]
    ELSE h.bin[i]

\* C7 as claimed: no bin decreases in a step other than reset.
C7_MonotoneAsClaimed ==
    [][LifeStep =>
        \A i \in 0 .. LEN - 1 : h'.bin[i] < h.bin[i] => op'.name = "reset"
    ]_vars

\* C7, amended: a bin decreases from one state to the next only in a step
\* that is reset, a scale by zero, or an add, merge or scale whose exact
\* result for that bin exceeds u64::MAX in a build without overflow checks
\* (the result wraps).
C7_Monotone ==
    [][LifeStep =>
        \A i \in 0 .. LEN - 1 :
            h'.bin[i] < h.bin[i] =>
                \/ op'.name = "reset"
                \/ op'.name = "mul_assign" /\ op'.arg[1] = 0
                \/ /\ op'.name \in {"add", "add_assign", "mul_assign"}
                   /\ ~overflow_checks
                   /\ Exact(i) > U64Max
    ]_vars

\* A merge has raised a bin to 3.
C7_Witness ==
    /\ op.name = "add_assign" /\ op.ret = "Ok"
    /\ \E i \in 0 .. LEN - 1 : h.bin[i] = 3 /\ op.arg[i + 1] = 1

\* The first bin whose product with factor exceeds u64::MAX (LEN when none).
FirstOverflow(bin, factor) ==
    LET S == { i \in 0 .. LEN - 1 : bin[i] * factor > U64Max }
    IN  IF S = {} THEN LEN ELSE CHOOSE i \in S : \A j \in S : i <= j

\* C8 as claimed: *= factor completes normally and leaves each bin equal to
\* (old bin * factor) mod 2^64, ranges unchanged.
C8_ScaleAsClaimed ==
    [][(LifeStep /\ op'.name = "mul_assign") =>
        /\ op'.ret = "Ok"
        /\ h'.range = h.range
        /\ \A i \in 0 .. LEN - 1 : h'.bin[i] = (h.bin[i] * op'.arg[1]) % U64Modulus
    ]_vars

\* C8, amended: *= factor leaves the ranges unchanged; in a build without
\* overflow checks, or when no product exceeds u64::MAX, it completes
\* normally and leaves each bin equal to (old bin * factor) mod 2^64; in a
\* build with overflow checks it panics at the first bin whose product
\* exceeds u64::MAX, the bins before it scaled and the others unchanged.
C8_Scale ==
    [][(LifeStep /\ op'.name = "mul_assign") =>
        LET factor == op'.arg[1]
            k == FirstOverflow(h.bin, factor)
        IN  /\ h'.range = h.range
            /\ op'.ret = (IF overflow_checks /\ k < LEN THEN "panic" ELSE "Ok")
            /\ op'.ret = "Ok" =>
                  \A i \in 0 .. LEN - 1 : h'.bin[i] = (h.bin[i] * factor) % U64Modulus
            /\ op'.ret = "panic" =>
                  \A i \in 0 .. LEN - 1 :
                      h'.bin[i] = IF i < k THEN h.bin[i] * factor ELSE h.bin[i]
    ]_vars

\* A scale by u64::MAX has wrapped a bin (only u64::MAX itself gives 1).
C8_Witness ==
    /\ op.name = "mul_assign" /\ op.ret = "Ok" /\ op.arg[1] = U64Max
    /\ \E i \in 0 .. LEN - 1 : h.bin[i] = 1

----------------------------------------------------------------------------
(* Construction claims *)

\* a < b on f64
FLt(a, b) == a # NaN /\ b # NaN /\ a < b
Min2(a, b) == IF a < b THEN a ELSE b
Take(s, n) == SubSeq(s, 1, Min2(Len(s), n))

\* What from_ranges is documented to reject.
Rejected(s) ==
    \/ Len(s) < LEN + 1
    \/ \E k \in 1 .. LEN + 1 : s[k] = NaN
    \/ \E k \in 2 .. LEN + 1 : FLt(s[k], s[k - 1])

----------------------------------------------------------------------------
(* Classification claims *)

InBin(range, x, i) == range[i] <= x /\ x < range[i + 1]

\* C1: for a histogram accepted by from_ranges and a non-NaN x with
\* range[0] <= x < range[LEN], find(x) returns Ok(i) with 0 <= i < LEN and
\* range[i] <= x < range[i + 1].
C1_BinCoverage ==
    (/\ ctor = "from_ranges" /\ op.name = "find" /\ op.arg[1] # NaN
     /\ h.range[0] <= op.arg[1] /\ op.arg[1] < h.range[LEN])
    => /\ op.ret = "Ok"
       /\ 0 <= op.i /\ op.i < LEN
       /\ InBin(h.range, op.arg[1], op.i)

\* C2: for a histogram accepted by from_ranges and a non-NaN x with
\* x < range[0] or x >= range[LEN], find(x) returns Err.
C2_OutOfRange ==
    (/\ ctor = "from_ranges" /\ op.name = "find" /\ op.arg[1] # NaN
     /\ (op.arg[1] < h.range[0] \/ op.arg[1] >= h.range[LEN]))
    => op.ret = "Err"

----------------------------------------------------------------------------
(* Merge, fill and Min claims *)

\* C5: after h += &other completes, for h and other built over the same
\* ranges by adding samples, the bins of h equal those of the one histogram
\* that received all the samples, bin-wise the u64 sum of the bins of h and
\* other before; other and the ranges of h are unchanged.
C5_MergeAdditive ==
    [][(op'.name = "add_assign" /\ op'.ret = "Ok") =>
        /\ \A i \in 0 .. LEN - 1 :
              /\ h'.bin[i] = total'.bin[i]
              /\ h'.bin[i] = (h.bin[i] + other.bin[i]) % U64Modulus
        /\ other' = other
        /\ total' = total
        /\ h'.range = h.range
    ]_vars

\* A merge has completed in which both histograms held samples of one bin.
C5_Witness ==
    /\ op.name = "add_assign" /\ op.ret = "Ok"
    /\ \E i \in 0 .. LEN - 1 : other.bin[i] = 1 /\ h.bin[i] = 3

\* The construction's end argument and bin width in the uniform fill.
FillEnd == input.args[2]
FillWidth == FillEnd \div LEN

\* C9: on with_const_width(0, LEN * w), adding each integer 0 .. LEN * w - 1
\* once makes every add return Ok, each bin counting the integers added so
\* far in its interval, so that in the end every bin equals w.
C9_UniformFill ==
    /\ op.name = "add" => op.ret = "Ok"
    /\ \A i \in 0 .. LEN - 1 :
          h.bin[i] = Cardinality({ j \in added : i * FillWidth <= j /\ j < (i + 1) * FillWidth })
    /\ added = 0 .. FillEnd - 1 => \A i \in 0 .. LEN - 1 : h.bin[i] = FillWidth

\* The fill of width 2 is complete.
C9_Witness ==
    /\ FillEnd = 2 * LEN
    /\ added = 0 .. FillEnd - 1
    /\ op.name = "add"

Smallest(S) == CHOOSE v \in S : \A u \in S : v <= u
SeqLeft == { sequence[k] : k \in 1 .. mid }
SeqRight == { sequence[k] : k \in mid + 1 .. Len(sequence) }

\* C10: each Min reports the smallest value added to it, and the Min of the
\* left part merged with the Min of the right part reports the same min() as
\* the Min of the whole sequence.
C10_MinMerge ==
    /\ pc \in {"left", "right", "merge", "done"} =>
          MinValue(min_total) = Smallest(SeqLeft \cup SeqRight)
    /\ pc \in {"right", "merge"} => MinValue(min_left) = Smallest(SeqLeft)
    /\ pc \in {"merge", "done"} => MinValue(min_right) = Smallest(SeqRight)
    /\ pc = "done" =>
          /\ MinValue(min_left) = MinValue(min_total)
          /\ MinValue(min_left) = Smallest(SeqLeft \cup SeqRight)

\* The merge is done and the smallest value came from the right part.
C10_Witness ==
    /\ pc = "done"
    /\ Smallest(SeqRight) < Smallest(SeqLeft)
    /\ MinValue(min_left) = Smallest(SeqRight)

====
